---------------------------- MODULE Spec2Model ----------------------------
(***************************************************************************)
(* Reading-order resolution for manga panels                               *)
(* (src/src/core/visual_analysis/reading_order.py).                        *)
(*                                                                         *)
(* A bounding box is a tuple <<x1, y1, x2, y2>> of integers.  Python       *)
(* indices are 0-based, TLA+ sequences 1-based: bbox[k] of the source is   *)
(* b[k+1] here, and the indices the functions RETURN are kept 0-based as   *)
(* in the source.  Centres and gutter positions are halves of integer      *)
(* sums in the source ((a + b) / 2.0); the model stores TWICE the value    *)
(* (a + b), which keeps every comparison between them exact.  An exception *)
(* is a value: every function result is a record whose field "raised" is   *)
(* "none" or the name of the Python exception that left the function.      *)
(*                                                                         *)
(* Specifications: Spec (a page given to estimate_reading_order,           *)
(* detect_4koma_layout or detect_gutters), SpecSelect (select_best_gutter  *)
(* on the caller's gutter lists), SpecGutters (detect_gutters loop by      *)
(* loop, build_division_tree with a max_depth), SpecPipeline               *)
(* (enhance_json_with_reading_order of                                     *)
(* src/src/core/pipeline/pipeline_enhanced.py on a chapter) and            *)
(* SpecInterleaved (several calls of estimate_reading_order at once).      *)
(***************************************************************************)
EXTENDS Integers, Sequences, FiniteSets, TLC

\* ------------------------------------------------------------------ bounds
MaxX == 3
PageWidth == 5
LayoutRows == 5
MaxPanels == 4
\* select_best_gutter called alone: cells per side of the page, and the
\* number of candidate gutters of a call
GridSize == 3
MaxCandidates == 2
\* detect_gutters and build_division_tree called alone: rows of the page,
\* panels of a call, and the largest max_depth
GutterRows == 3
MaxStack == 3
MaxDepth == 2
\* enhance_json_with_reading_order: pages of a chapter
MaxPages == 2
\* calls of estimate_reading_order running at the same time
Invocations == 2
\* chapter requests: image paths of a request
MaxImages == 2
\* bbox overlap: largest coordinate of the two boxes
MaxCoord == 2
\* pages of a chapter given to generate_timeline_for_chapter
MaxChapterPages == 3

\* ------------------------------------------------------- program constants
\* index of the far edge inside a (start, end) range tuple, as written in
\* the horizontal loop (panel_y_ranges[i][1]) and in the vertical loop
\* (panel_x_ranges[i][2])
HFarIndex == 1
VFarIndex == 2
\* default max_depth of build_division_tree
DefaultMaxDepth == 10
\* 4-koma thresholds: avg_width < page_width * 0.8 and
\* abs(gap - avg_gap) < avg_gap * 0.3, as tenths
KomaWidthTenths == 8
KomaGapTenths == 3
KomaPanels == 4

\* ------------------------------------------------------------------ helpers
Abs(n) == IF n < 0 THEN -n ELSE n

SetMin(S) == CHOOSE m \in S : \A e \in S : m <= e

SetMax(S) == CHOOSE m \in S : \A e \in S : m >= e

RECURSIVE SeqSum(_)
SeqSum(s) == IF s = <<>> THEN 0 ELSE s[1] + SeqSum(Tail(s))

\* Python compares key tuples lexicographically; keys have 1 or 2 components
KeyLess(a, b) == \/ a[1] < b[1]
                 \/ a[1] = b[1] /\ Len(a) > 1 /\ a[2] < b[2]

\* list.sort / sorted: a stable sort of records [key, val] by key
SortInsert(sorted, e) ==
  LET later == {i \in DOMAIN sorted : KeyLess(e.key, sorted[i].key)}
      k == IF later = {} THEN Len(sorted) + 1 ELSE SetMin(later)
  IN SubSeq(sorted, 1, k - 1) \o <<e>> \o SubSeq(sorted, k, Len(sorted))

RECURSIVE StableSort(_)
StableSort(s) ==
  IF s = <<>> THEN <<>>
  ELSE SortInsert(StableSort(SubSeq(s, 1, Len(s) - 1)), s[Len(s)])

\* ------------------------------------------------------ geometry primitives
\* bbox_center, doubled: <<x1 + x2, y1 + y2>>
bbox_center(bbox) == <<bbox[1] + bbox[3], bbox[2] + bbox[4]>>

bbox_area(bbox) ==
  LET a == (bbox[3] - bbox[1]) * (bbox[4] - bbox[2])
  IN IF a > 0 THEN a ELSE 0

bbox_overlap(a, b) ==
  LET inter_x1 == IF a[1] > b[1] THEN a[1] ELSE b[1]
      inter_y1 == IF a[2] > b[2] THEN a[2] ELSE b[2]
      inter_x2 == IF a[3] < b[3] THEN a[3] ELSE b[3]
      inter_y2 == IF a[4] < b[4] THEN a[4] ELSE b[4]
  IN IF inter_x2 <= inter_x1 \/ inter_y2 <= inter_y1
     THEN 0
     ELSE (inter_x2 - inter_x1) * (inter_y2 - inter_y1)

\* ----------------------------------------------------------- detect_gutters
\* One of the two loops of detect_gutters.  lo/hi are the bbox positions of
\* the scanned axis (y1/y2 for the horizontal loop, x1/x2 for the vertical
\* one), slo/shi those of the other axis, farIndex the 0-based index the
\* loop uses to read the far edge of range i out of the 2-tuple (start, end).
\* The loop runs i = 0 .. len - 2 in order; the first failing read or the
\* first min()/max() of an empty generator ends it with the exception.
GutterLoop(panels, lo, hi, slo, shi, farIndex, orientation, min_gutter_size) ==
  LET n == Len(panels)
      ranges == StableSort([i \in 1..n |->
                  [key |-> <<panels[i][lo]>>,
                   val |-> <<panels[i][lo], panels[i][hi]>>]])
      range(i) == ranges[i].val
      near(i) == range(i + 1)[1]
      far(i) == range(i)[farIndex + 1]
      Emits(i) == near(i) - far(i) >= min_gutter_size
      Before(i) == {p \in 1..n : panels[p][hi] <= far(i) + min_gutter_size}
      After(i) == {p \in 1..n : panels[p][lo] >= near(i) - min_gutter_size}
      Fails(i) == Emits(i) /\ (Before(i) = {} \/ After(i) = {})
      Gutter(i) == [orientation |-> orientation,
                    position |-> near(i) + far(i),
                    start |-> SetMin({panels[p][slo] : p \in Before(i)}),
                    end |-> SetMax({panels[p][shi] : p \in After(i)})]
      steps == [i \in 1..(IF n > 1 THEN n - 1 ELSE 0) |-> i]
      Emitting(i) == Emits(i)
  IN IF n <= 1 THEN [raised |-> "none", gutters |-> <<>>]
     ELSE IF farIndex + 1 > 2
          THEN [raised |-> "IndexError", gutters |-> <<>>]
     ELSE IF \E i \in 1..(n - 1) : Fails(i)
          THEN [raised |-> "ValueError", gutters |-> <<>>]
     ELSE LET chosen == SelectSeq(steps, Emitting)
          IN [raised |-> "none",
              gutters |-> [k \in 1..Len(chosen) |-> Gutter(chosen[k])]]

detect_gutters(panels, page_width, page_height, min_gutter_size) ==
  LET h == GutterLoop(panels, 2, 4, 1, 3, HFarIndex, "horizontal",
                      min_gutter_size)
      v == GutterLoop(panels, 1, 3, 2, 4, VFarIndex, "vertical",
                      min_gutter_size)
  IN IF h.raised # "none"
     THEN [raised |-> h.raised, horizontal |-> <<>>, vertical |-> <<>>]
     ELSE IF v.raised # "none"
     THEN [raised |-> v.raised, horizontal |-> <<>>, vertical |-> <<>>]
     ELSE [raised |-> "none", horizontal |-> h.gutters,
           vertical |-> v.gutters]

\* ------------------------------------------------------- select_best_gutter
\* None
NoGutter == [orientation |-> "None", position |-> 0, start |-> 0, end |-> 0]

\* The two counts of one candidate: panels whose (doubled) centre along
\* axis (1 = x, 2 = y) is below the (doubled) position, and the others.
CountBelow(panels, axis, gutter) ==
  Cardinality({p \in DOMAIN panels :
                 bbox_center(panels[p])[axis] < gutter.position})

\* (variant: center > position)
CountAbove(panels, axis, gutter) ==
  Cardinality({p \in DOMAIN panels :
                 bbox_center(panels[p])[axis] > gutter.position})

CountAtOrAbove(panels, axis, gutter) ==
  Cardinality({p \in DOMAIN panels :
                 bbox_center(panels[p])[axis] >= gutter.position})

\* the (gutter, imbalance) pairs of one of the two for-loops, in list order;
\* imbalance is kept as the numerator |a - b| (the divisor len(panels) is
\* the same for every candidate of a call)
ScoredGuttersUnfiltered(gutters, axis, panels) ==
  [k \in 1..Len(gutters) |->
     [key |-> <<Abs(CountBelow(panels, axis, gutters[k])
                    - CountAtOrAbove(panels, axis, gutters[k]))>>,
      val |-> gutters[k]]]

ScoredGutters(gutters, axis, panels) ==
  LET Splits(g) == /\ CountBelow(panels, axis, g) > 0
                   /\ CountAtOrAbove(panels, axis, g) > 0
      kept == SelectSeq(gutters, Splits)
  IN [k \in 1..Len(kept) |->
        [key |-> <<Abs(CountBelow(panels, axis, kept[k])
                       - CountAtOrAbove(panels, axis, kept[k]))>>,
         val |-> kept[k]]]

select_best_gutter(horizontal_gutters, vertical_gutters, panels) ==
  LET all_gutters == ScoredGutters(horizontal_gutters, 2, panels)
                     \o ScoredGutters(vertical_gutters, 1, panels)
  IN IF all_gutters = <<>> THEN NoGutter
     ELSE StableSort(all_gutters)[1].val

\* -------------------------------------------------- divide_panels_by_gutter
\* (variant: center_y <= position and center_x > position)
divide_panels_by_gutter_on_line(panels, gutter) ==
  LET Top(bbox) == bbox_center(bbox)[2] <= gutter.position
      Bottom(bbox) == ~ Top(bbox)
      Right(bbox) == bbox_center(bbox)[1] > gutter.position
      Left(bbox) == ~ Right(bbox)
  IN IF gutter.orientation = "horizontal"
     THEN [group1 |-> SelectSeq(panels, Top),
           group2 |-> SelectSeq(panels, Bottom)]
     ELSE [group1 |-> SelectSeq(panels, Right),
           group2 |-> SelectSeq(panels, Left)]

divide_panels_by_gutter(panels, gutter) ==
  LET Top(bbox) == bbox_center(bbox)[2] < gutter.position
      Bottom(bbox) == ~ Top(bbox)
      Right(bbox) == bbox_center(bbox)[1] >= gutter.position
      Left(bbox) == ~ Right(bbox)
  IN IF gutter.orientation = "horizontal"
     THEN [group1 |-> SelectSeq(panels, Top),
           group2 |-> SelectSeq(panels, Bottom)]
     ELSE [group1 |-> SelectSeq(panels, Right),
           group2 |-> SelectSeq(panels, Left)]

\* ------------------------------------------------------ build_division_tree
\* [min x1, min y1, max x2, max y2] of a non-empty panel list
\* (variant: max for min in y1)
UnionBBoxMaxTop(panels) ==
  <<SetMin({panels[p][1] : p \in DOMAIN panels}),
    SetMax({panels[p][2] : p \in DOMAIN panels}),
    SetMax({panels[p][3] : p \in DOMAIN panels}),
    SetMax({panels[p][4] : p \in DOMAIN panels})>>

UnionBBox(panels) ==
  <<SetMin({panels[p][1] : p \in DOMAIN panels}),
    SetMin({panels[p][2] : p \in DOMAIN panels}),
    SetMax({panels[p][3] : p \in DOMAIN panels}),
    SetMax({panels[p][4] : p \in DOMAIN panels})>>

Leaf(bbox) == [bbox |-> bbox, children |-> <<>>, is_leaf |-> TRUE]

\* sorted(panels, key=lambda b: (-bbox_center(b)[0], bbox_center(b)[1]))
SortedRTL(panels) ==
  LET s == StableSort([i \in DOMAIN panels |->
             [key |-> <<0 - bbox_center(panels[i])[1],
                        bbox_center(panels[i])[2]>>,
              val |-> panels[i]]])
  IN [i \in DOMAIN s |-> s[i].val]

\* the leaf both fallbacks ("no suitable gutter", "division failed") return
MergedLeaf(panels) ==
  LET sorted_panels == SortedRTL(panels)
  IN IF Len(sorted_panels) = 1 THEN Leaf(sorted_panels[1])
     ELSE Leaf(UnionBBox(sorted_panels))

\* result: [raised, node, calls]; calls is the set of functions of the
\* module the call (and its recursive calls) invoked.  The body is cut into
\* the steps of the source, each step receiving the values computed so far.
RECURSIVE build_division_tree(_, _, _, _, _)

\* "Recursively process each group" onwards, the two subtrees given
CombineChildren(panels, child1, child2) ==
  IF child1.raised # "none"
  THEN [raised |-> child1.raised,
        calls |-> {"detect_gutters", "select_best_gutter",
                   "divide_panels_by_gutter", "build_division_tree"}
                  \cup child1.calls,
        node |-> Leaf(<<>>)]
  ELSE IF child2.raised # "none"
  THEN [raised |-> child2.raised,
        calls |-> {"detect_gutters", "select_best_gutter",
                   "divide_panels_by_gutter", "build_division_tree"}
                  \cup child1.calls \cup child2.calls,
        node |-> Leaf(<<>>)]
  ELSE [raised |-> "none",
        calls |-> {"detect_gutters", "select_best_gutter",
                   "divide_panels_by_gutter", "build_division_tree"}
                  \cup child1.calls \cup child2.calls,
        node |-> [bbox |-> UnionBBox(panels),
                  children |-> <<child1.node, child2.node>>,
                  is_leaf |-> FALSE]]

\* "Divide panels" onwards, the two groups given
RecurseOnGroups(panels, page_width, page_height, min_gutter_size, max_depth, groups) ==
  IF groups.group1 = <<>> \/ groups.group2 = <<>>
  THEN [raised |-> "none",
        calls |-> {"detect_gutters", "select_best_gutter",
                   "divide_panels_by_gutter"},
        node |-> MergedLeaf(panels)]
  ELSE CombineChildren(panels,
         build_division_tree(groups.group1, page_width, page_height,
                             min_gutter_size, max_depth - 1),
         build_division_tree(groups.group2, page_width, page_height,
                             min_gutter_size, max_depth - 1))

\* "Select best gutter" onwards, the selected gutter given
DivideByBest(panels, page_width, page_height, min_gutter_size, max_depth, best_gutter) ==
  IF best_gutter = NoGutter
  THEN [raised |-> "none",
        calls |-> {"detect_gutters", "select_best_gutter"},
        node |-> MergedLeaf(panels)]
  ELSE RecurseOnGroups(panels, page_width, page_height, min_gutter_size,
                       max_depth, divide_panels_by_gutter(panels, best_gutter))

\* "Detect gutters" onwards, the result of detect_gutters given
SplitByGutters(panels, page_width, page_height, min_gutter_size, max_depth, found) ==
  IF found.raised # "none"
  THEN [raised |-> found.raised, calls |-> {"detect_gutters"},
        node |-> Leaf(<<>>)]
  ELSE DivideByBest(panels, page_width, page_height, min_gutter_size,
                    max_depth,
                    select_best_gutter(found.horizontal, found.vertical,
                                       panels))

build_division_tree_below_zero(panels, page_width, page_height, min_gutter_size, max_depth) ==
  IF Len(panels) <= 1 \/ max_depth < 0
  THEN [raised |-> "none", calls |-> {},
        node |-> IF Len(panels) = 1 THEN Leaf(panels[1])
                 ELSE IF panels # <<>> THEN Leaf(UnionBBox(panels))
                 ELSE Leaf(<<0, 0, page_width, page_height>>)]
  ELSE SplitByGutters(panels, page_width, page_height, min_gutter_size,
                      max_depth,
                      detect_gutters(panels, page_width, page_height,
                                     min_gutter_size))

build_division_tree(panels, page_width, page_height, min_gutter_size, max_depth) ==
  IF Len(panels) <= 1 \/ max_depth <= 0
  THEN [raised |-> "none", calls |-> {},
        node |-> IF Len(panels) = 1 THEN Leaf(panels[1])
                 ELSE IF panels # <<>> THEN Leaf(UnionBBox(panels))
                 ELSE Leaf(<<0, 0, page_width, page_height>>)]
  ELSE SplitByGutters(panels, page_width, page_height, min_gutter_size,
                      max_depth,
                      detect_gutters(panels, page_width, page_height,
                                     min_gutter_size))

\* -------------------------------------------------------- traverse_tree_rtl
RECURSIVE traverse_tree_rtl(_)
traverse_tree_rtl(node) ==
  IF node.is_leaf THEN <<node.bbox>>
  ELSE IF node.children = <<>> THEN <<>>
  ELSE traverse_tree_rtl(node.children[1])
       \o traverse_tree_rtl(node.children[2])

\* ------------------------------------------------------ detect_4koma_layout
\* sorted list of the (doubled) vertical centres
SortedCentersY(panels) ==
  LET s == StableSort([i \in DOMAIN panels |->
             [key |-> <<bbox_center(panels[i])[2]>>,
              val |-> bbox_center(panels[i])[2]]])
  IN [i \in DOMAIN s |-> s[i].val]

\* avg_width < page_width * 0.8 is sum / n < page_width * 8 / 10, and
\* abs(gap - avg_gap) < avg_gap * 0.3 with avg_gap = total / m is
\* 10 * |m * gap - total| < 3 * total; the doubling of the centres
\* multiplies both sides alike
\* (variant: the width test left out)
detect_4koma_layout_no_width(panels, page_width, page_height) ==
  LET n == Len(panels)
      panel_centers_y == SortedCentersY(panels)
      gaps == [i \in 1..(n - 1) |->
                 panel_centers_y[i + 1] - panel_centers_y[i]]
      total == SeqSum(gaps)
  IN IF n # KomaPanels THEN FALSE
     ELSE \A i \in DOMAIN gaps :
            10 * Abs(Len(gaps) * gaps[i] - total) < KomaGapTenths * total

detect_4koma_layout(panels, page_width, page_height) ==
  LET n == Len(panels)
      panel_widths == [i \in DOMAIN panels |-> panels[i][3] - panels[i][1]]
      panel_centers_y == SortedCentersY(panels)
      gaps == [i \in 1..(n - 1) |->
                 panel_centers_y[i + 1] - panel_centers_y[i]]
      total == SeqSum(gaps)
  IN IF n # KomaPanels THEN FALSE
     ELSE IF 10 * SeqSum(panel_widths) < KomaWidthTenths * n * page_width
          THEN FALSE
     ELSE \A i \in DOMAIN gaps :
            10 * Abs(Len(gaps) * gaps[i] - total) < KomaGapTenths * total

\* --------------------------------------------------- estimate_reading_order
\* (variant: the single panel numbered from 1)
TrivialOrderOneBased(panels) == IF panels = <<>> THEN <<>> ELSE <<1>>

\* the two early returns: [] for no panel, [0] for one
TrivialOrder(panels) == IF panels = <<>> THEN <<>> ELSE <<0>>

\* (variant: the sort left out, indices in list order)
KomaOrderUnsorted(panels) == [i \in DOMAIN panels |-> i - 1]

\* 4-koma branch: the indices, stably sorted by vertical centre
KomaOrder(panels) ==
  LET s == StableSort([i \in DOMAIN panels |->
             [key |-> <<bbox_center(panels[i])[2]>>, val |-> i - 1]])
  IN [i \in DOMAIN s |-> s[i].val]

\* dist of the matching loop, squared and in doubled units (np.sqrt is
\* monotone): 0 when the boxes overlap, else the squared centre distance
MatchDistance(ordered_bbox, orig_bbox) ==
  LET oc == bbox_center(ordered_bbox)
      pc0 == bbox_center(orig_bbox)
  IN IF bbox_overlap(ordered_bbox, orig_bbox) > 0 THEN 0
     ELSE (oc[1] - pc0[1]) * (oc[1] - pc0[1])
          + (oc[2] - pc0[2]) * (oc[2] - pc0[2])

\* one pass of "for ordered_bbox in ordered_bboxes"; used_indices and
\* reading_order hold 0-based indices
RECURSIVE MatchLoop(_, _, _, _)
MatchLoop(ordered_bboxes, panels, used_indices, reading_order) ==
  IF ordered_bboxes = <<>>
  THEN [used_indices |-> used_indices, reading_order |-> reading_order]
  ELSE
    LET ordered_bbox == Head(ordered_bboxes)
        free == {idx \in 0..(Len(panels) - 1) : idx \notin used_indices}
        Dist(idx) == MatchDistance(ordered_bbox, panels[idx + 1])
        best_idx == SetMin({idx \in free :
                              \A other \in free : Dist(idx) <= Dist(other)})
    IN IF free = {}
       THEN MatchLoop(Tail(ordered_bboxes), panels, used_indices,
                      reading_order)
       ELSE MatchLoop(Tail(ordered_bboxes), panels,
                      used_indices \cup {best_idx},
                      Append(reading_order, best_idx))

\* "Add any remaining panels": the unused indices in ascending order
RECURSIVE Remaining(_, _, _)
Remaining(idx, n, used_indices) ==
  IF idx >= n THEN <<>>
  ELSE (IF idx \in used_indices THEN <<>> ELSE <<idx>>)
       \o Remaining(idx + 1, n, used_indices)

\* "Find original indices for ordered bboxes" onwards, the matching done
OrderFromMatch(n, matched) ==
  matched.reading_order \o Remaining(0, n, matched.used_indices)

\* "Build division tree" onwards, the result of build_division_tree given
OrderFromTree(panels, calls0, tree) ==
  IF tree.raised # "none"
  THEN [raised |-> tree.raised, value |-> <<>>,
        calls |-> calls0 \cup {"build_division_tree"} \cup tree.calls]
  ELSE [raised |-> "none",
        value |-> OrderFromMatch(Len(panels),
                    MatchLoop(traverse_tree_rtl(tree.node), panels, {}, <<>>)),
        calls |-> calls0 \cup {"build_division_tree", "traverse_tree_rtl"}
                  \cup tree.calls]

\* "Auto-detect 4-koma if not specified" onwards, the flag resolved
OrderFor(panels, page_width, page_height, min_gutter_size, calls0, detected) ==
  IF detected
  THEN [raised |-> "none", value |-> KomaOrder(panels), calls |-> calls0]
  ELSE OrderFromTree(panels, calls0,
         build_division_tree(panels, page_width, page_height,
                             min_gutter_size, DefaultMaxDepth))

\* is_4koma is "None", "True" or "False".  Result: [raised, value, calls]
\* (variant: the layout is detected whatever the flag)
estimate_reading_order_detect_always(panels, page_width, page_height, is_4koma, min_gutter_size) ==
  IF Len(panels) <= 1
  THEN [raised |-> "none", value |-> TrivialOrder(panels), calls |-> {}]
  ELSE OrderFor(panels, page_width, page_height, min_gutter_size,
                {"detect_4koma_layout"},
                detect_4koma_layout(panels, page_width, page_height))

estimate_reading_order(panels, page_width, page_height, is_4koma, min_gutter_size) ==
  IF Len(panels) <= 1
  THEN [raised |-> "none", value |-> TrivialOrder(panels), calls |-> {}]
  ELSE IF is_4koma = "None"
  THEN OrderFor(panels, page_width, page_height, min_gutter_size,
                {"detect_4koma_layout"},
                detect_4koma_layout(panels, page_width, page_height))
  ELSE OrderFor(panels, page_width, page_height, min_gutter_size, {},
                is_4koma = "True")

\* ============================================================ state machine
\* One page is given by the caller (panel list and page size); one of the
\* module's functions is then applied to it.
VARIABLES
  panels,       \* the caller's list of bounding boxes
  page_width,
  page_height,
  pc,           \* "ready", or the name of the function that has returned
  args,         \* the remaining arguments of that call
  result,       \* what the call returned or raised
  frames        \* the local variables of the calls still running

vars == <<panels, page_width, page_height, pc, args, result, frames>>

\* the page of the bounded inputs, and a second, larger one
StandardPage == <<PageWidth, LayoutRows>>

OtherPage == <<PageWidth + 1, LayoutRows + 1>>

\* every box with x in 0..MaxX and y at the top or bottom edge of the page:
\* ordinary (full-height), zero-width, zero-height and inverted boxes
AllBoxes ==
  {<<x1, y1, x2, y2>> : x1 \in 0..MaxX, y1 \in {0, LayoutRows},
                        x2 \in 0..MaxX, y2 \in {0, LayoutRows}}

\* left column, right column (a gutter of PageWidth - 2 between them) and
\* the full width of the page
LeftColumn == <<0, 1>>

RightColumn == <<PageWidth - 1, PageWidth>>

FullWidth == <<0, PageWidth>>

\* a panel one row high in row r, and one two rows high in rows r, r + 1
RowBox(column, r) == <<column[1], r, column[2], r + 1>>

TallBox(column, r) == <<column[1], r, column[2], r + 2>>

\* strips: full-width panels one row high and narrow panels two rows high
StripBoxes ==
  {RowBox(FullWidth, r) : r \in 0..(LayoutRows - 1)}
  \cup {TallBox(LeftColumn, r) : r \in 0..(LayoutRows - 2)}

\* the boxes of a list are pairwise different
Distinct(l) == \A i, j \in DOMAIN l : i # j => l[i] # l[j]

\* the four panels of a 2x2 grid of rows top and bottom
GridBoxes(top, bottom) ==
  {RowBox(c, r) : c \in {LeftColumn, RightColumn}, r \in {top, bottom}}

\* the examples section 8 of the specification gives with numbers
SpecExamples ==
  { [panels |-> << <<0, 0, 50, 100>>, <<60, 0, 110, 100>> >>,
     page_width |-> 110, page_height |-> 100],
    [panels |-> << <<0, 0, 100, 25>>, <<0, 25, 100, 50>>,
                   <<0, 50, 100, 75>>, <<0, 75, 100, 100>> >>,
     page_width |-> 100, page_height |-> 100] }

PagesFor(l) == IF Len(l) <= 1 THEN {StandardPage, OtherPage}
               ELSE {StandardPage}

\* min_gutter_size: one grid unit, or the default of the signatures
DefaultMinGutterSize == 10

GutterSizes == {1, DefaultMinGutterSize}

\* the caller's page: an example of the specification; or up to two boxes of
\* any shape; or three to MaxPanels different strips; or a 2x2 grid with a
\* free row between its rows, in any list order
Init ==
  /\ \/ \E ex \in SpecExamples :
          /\ panels = ex.panels
          /\ page_width = ex.page_width
          /\ page_height = ex.page_height
     \/ \E n \in 0..2 :
          /\ panels \in [1..n -> AllBoxes]
          /\ \E pg \in PagesFor(panels) :
               page_width = pg[1] /\ page_height = pg[2]
     \/ \E n \in 3..MaxPanels :
          /\ panels \in [1..n -> StripBoxes]
          /\ Distinct(panels)
          /\ page_width = StandardPage[1]
          /\ page_height = StandardPage[2]
     \/ \E top \in 0..(LayoutRows - 3), bottom \in 2..(LayoutRows - 1) :
          /\ bottom >= top + 2
          /\ panels \in [1..4 -> GridBoxes(top, bottom)]
          /\ Distinct(panels)
          /\ page_width = StandardPage[1]
          /\ page_height = StandardPage[2]
  /\ pc = "ready"
  /\ args = [is_4koma |-> "None", min_gutter_size |-> DefaultMinGutterSize]
  /\ result = [raised |-> "none"]
  /\ frames = <<>>

\* (variant: the caller's list is put in reading order in place)
EstimateReadingOrderInPlace ==
  /\ pc = "ready"
  /\ \E is_4koma \in {"None", "True", "False"}, min_gutter_size \in GutterSizes :
       /\ args' = [is_4koma |-> is_4koma,
                   min_gutter_size |-> min_gutter_size]
       /\ result' = estimate_reading_order(panels, page_width, page_height,
                                           is_4koma, min_gutter_size)
  /\ panels' = IF result'.raised = "none"
               THEN [k \in DOMAIN result'.value |->
                       panels[result'.value[k] + 1]]
               ELSE panels
  /\ pc' = "estimate_reading_order"
  /\ UNCHANGED <<page_width, page_height, frames>>

EstimateReadingOrder ==
  /\ pc = "ready"
  /\ \E is_4koma \in {"None", "True", "False"}, min_gutter_size \in GutterSizes :
       /\ args' = [is_4koma |-> is_4koma,
                   min_gutter_size |-> min_gutter_size]
       /\ result' = estimate_reading_order(panels, page_width, page_height,
                                           is_4koma, min_gutter_size)
  /\ pc' = "estimate_reading_order"
  /\ UNCHANGED <<panels, page_width, page_height, frames>>

Detect4komaLayout ==
  /\ pc = "ready"
  /\ result' = [raised |-> "none",
                value |-> detect_4koma_layout(panels, page_width,
                                              page_height)]
  /\ pc' = "detect_4koma_layout"
  /\ UNCHANGED <<panels, page_width, page_height, args, frames>>

DetectGutters ==
  /\ pc = "ready"
  /\ \E min_gutter_size \in GutterSizes :
       /\ args' = [is_4koma |-> "None", min_gutter_size |-> min_gutter_size]
       /\ result' = detect_gutters(panels, page_width, page_height,
                                   min_gutter_size)
  /\ pc' = "detect_gutters"
  /\ UNCHANGED <<panels, page_width, page_height, frames>>

Next == EstimateReadingOrder \/ Detect4komaLayout \/ DetectGutters

Spec == Init /\ [][Next]_vars

\* ------------------------------------------- select_best_gutter called alone
\* unit cells along the top edge and down the left edge of the page
CornerCells ==
  [k \in 1..(2 * GridSize - 1) |->
     IF k <= GridSize THEN <<k - 1, 0, k, 1>>
     ELSE <<0, k - GridSize, 1, k - GridSize + 1>>]

\* candidate positions (doubled): every half unit inside the page
GutterLines == 1..(2 * GridSize - 1)

GutterAt(orientation, position) ==
  [orientation |-> orientation, position |-> position,
   start |-> 0, end |-> GridSize]

\* the caller's panels (any sublist of the cells) and its two gutter lists
\* (different positions, in any list order, MaxCandidates in all)
InitSelect ==
  /\ \E keep \in SUBSET DOMAIN CornerCells :
       LET Kept(b) == \E k \in keep : CornerCells[k] = b
       IN panels = SelectSeq(CornerCells, Kept)
  /\ page_width = GridSize
  /\ page_height = GridSize
  /\ \E nh \in 0..MaxCandidates, nv \in 0..MaxCandidates :
       /\ nh + nv <= MaxCandidates
       /\ \E hs \in [1..nh -> GutterLines], vs \in [1..nv -> GutterLines] :
            /\ Distinct(hs)
            /\ Distinct(vs)
            /\ args = [horizontal_gutters |->
                         [k \in 1..nh |-> GutterAt("horizontal", hs[k])],
                       vertical_gutters |->
                         [k \in 1..nv |-> GutterAt("vertical", vs[k])]]
  /\ pc = "ready"
  /\ result = [raised |-> "none"]
  /\ frames = <<>>

SelectBestGutter ==
  /\ pc = "ready"
  /\ result' = [raised |-> "none",
                value |-> select_best_gutter(args.horizontal_gutters,
                                             args.vertical_gutters, panels)]
  /\ pc' = "select_best_gutter"
  /\ UNCHANGED <<panels, page_width, page_height, args, frames>>

\* "Divide panels": divide_panels_by_gutter on the same panels and the
\* gutter select_best_gutter returned
DividePanelsByGutter ==
  /\ pc = "select_best_gutter"
  /\ result.value # NoGutter
  /\ LET groups == divide_panels_by_gutter(panels, result.value)
     IN result' = [raised |-> "none", value |-> result.value,
                   group1 |-> groups.group1, group2 |-> groups.group2]
  /\ pc' = "divide_panels_by_gutter"
  /\ UNCHANGED <<panels, page_width, page_height, args, frames>>

NextSelect == SelectBestGutter \/ DividePanelsByGutter

SpecSelect == InitSelect /\ [][NextSelect]_vars

\* ------------------------- detect_gutters and build_division_tree called alone
\* a left column of panels of every height, a gap, and one full-height panel
\* to the right of it
StackBoxes ==
  {b \in {<<0, y1, 1, y2>> : y1 \in 0..GutterRows, y2 \in 0..GutterRows} :
     b[2] < b[4]}
  \cup {<<2, 0, 3, GutterRows>>}

\* min_gutter_size as a caller may pass it: negative, zero, one or two units
GutterThresholds == {-1, 0, 1, 2}

InitGutters ==
  /\ \E n \in 0..MaxStack : panels \in [1..n -> StackBoxes]
  /\ page_width = 3
  /\ page_height = GutterRows
  /\ pc = "ready"
  /\ args = [min_gutter_size |-> DefaultMinGutterSize]
  /\ result = [raised |-> "none"]
  /\ frames = <<>>

\* detect_gutters up to the end of its first loop ("Detect horizontal
\* gutters"): the list horizontal_gutters is built, or min() raised
DetectGuttersHorizontal ==
  /\ pc = "ready"
  /\ \E min_gutter_size \in GutterThresholds :
       LET h == GutterLoop(panels, 2, 4, 1, 3, HFarIndex, "horizontal",
                           min_gutter_size)
       IN /\ args' = [min_gutter_size |-> min_gutter_size]
          /\ IF h.raised # "none"
             THEN /\ result' = [raised |-> h.raised, horizontal |-> <<>>,
                                vertical |-> <<>>]
                  /\ pc' = "detect_gutters"
                  /\ frames' = <<>>
             ELSE /\ frames' = [horizontal_gutters |-> h.gutters]
                  /\ pc' = "detect_gutters_vertical"
                  /\ result' = result
  /\ UNCHANGED <<panels, page_width, page_height>>

\* the rest of detect_gutters: the second loop ("Detect vertical gutters")
\* and the return
DetectGuttersVertical ==
  /\ pc = "detect_gutters_vertical"
  /\ LET v == GutterLoop(panels, 1, 3, 2, 4, VFarIndex, "vertical",
                         args.min_gutter_size)
     IN result' = IF v.raised # "none"
                  THEN [raised |-> v.raised, horizontal |-> <<>>,
                        vertical |-> <<>>]
                  ELSE [raised |-> "none",
                        horizontal |-> frames.horizontal_gutters,
                        vertical |-> v.gutters]
  /\ pc' = "detect_gutters"
  /\ frames' = <<>>
  /\ UNCHANGED <<panels, page_width, page_height, args>>

BuildDivisionTree ==
  /\ pc = "ready"
  /\ \E min_gutter_size \in {0, 1}, max_depth \in 0..MaxDepth :
       /\ args' = [min_gutter_size |-> min_gutter_size,
                   max_depth |-> max_depth]
       /\ result' = build_division_tree(panels, page_width, page_height,
                                        min_gutter_size, max_depth)
  /\ pc' = "build_division_tree"
  /\ UNCHANGED <<panels, page_width, page_height, frames>>

NextGutters ==
  DetectGuttersHorizontal \/ DetectGuttersVertical \/ BuildDivisionTree

SpecGutters == InitGutters /\ [][NextGutters]_vars

\* ------------------------------------------ enhance_json_with_reading_order
\* (src/src/core/pipeline/pipeline_enhanced.py)  A page entry is a record
\* [content], content a list of panel records [id, panel_position,
\* reading_order]; reading_order 0 stands for a record without that key.
\* "Reorder panels and add reading_order field", the index list given
ReorderPanels(page_entry, reading_order_indices) ==
  IF reading_order_indices.raised # "none"
  THEN [raised |-> reading_order_indices.raised, entry |-> page_entry]
  ELSE [raised |-> "none",
        entry |->
          [content |->
             [idx \in DOMAIN reading_order_indices.value |->
                [page_entry.content[reading_order_indices.value[idx] + 1]
                   EXCEPT !.reading_order = idx]]]]

\* the body of the loop for one (page_entry, page)
EnhancePage(page_entry, page) ==
  IF page_entry.content = <<>>
  THEN [raised |-> "none", entry |-> page_entry]
  ELSE ReorderPanels(page_entry,
         estimate_reading_order(
           [i \in DOMAIN page_entry.content |->
              page_entry.content[i].panel_position],
           page.width, page.height, "None", DefaultMinGutterSize))

\* the loop over zip(chapter_entries, pages) from pair k on
RECURSIVE EnhanceFrom(_, _, _, _)
EnhanceFrom(chapter_entries, pages, k, enhanced_entries) ==
  IF k > Len(chapter_entries) \/ k > Len(pages)
  THEN [raised |-> "none", value |-> enhanced_entries]
  ELSE LET done == EnhancePage(chapter_entries[k], pages[k])
       IN IF done.raised # "none"
          THEN [raised |-> done.raised, value |-> <<>>]
          ELSE EnhanceFrom(chapter_entries, pages, k + 1,
                           Append(enhanced_entries, done.entry))

enhance_json_with_reading_order(chapter_entries, pages) ==
  EnhanceFrom(chapter_entries, pages, 1, <<>>)

\* panel lists of a page: none, one or two of three panels two rows high
\* (left column, right column, full width), or four full-width strips
PagePanelLists ==
  UNION {[1..n -> {TallBox(LeftColumn, 0), TallBox(RightColumn, 0),
                   TallBox(FullWidth, 0)}] : n \in 0..2}
  \cup {[r \in 1..KomaPanels |-> RowBox(FullWidth, r - 1)],
         [r \in 1..KomaPanels |-> RowBox(FullWidth, KomaPanels - r)]}

PageEntry(l) ==
  [content |-> [i \in DOMAIN l |->
                  [id |-> i, panel_position |-> l[i], reading_order |-> 0]]]

InitPipeline ==
  /\ \E n \in 0..MaxPages : \E ls \in [1..n -> PagePanelLists] :
       args = [chapter_entries |-> [k \in 1..n |-> PageEntry(ls[k])],
               pages |-> [k \in 1..n |-> [width |-> StandardPage[1],
                                          height |-> StandardPage[2]]]]
  /\ panels = <<>>
  /\ page_width = StandardPage[1]
  /\ page_height = StandardPage[2]
  /\ pc = "ready"
  /\ result = [raised |-> "none"]
  /\ frames = <<>>

EnhanceJsonWithReadingOrder ==
  /\ pc = "ready"
  /\ result' = enhance_json_with_reading_order(args.chapter_entries,
                                               args.pages)
  /\ pc' = "enhance_json_with_reading_order"
  /\ UNCHANGED <<panels, page_width, page_height, args, frames>>

NextPipeline == EnhanceJsonWithReadingOrder

SpecPipeline == InitPipeline /\ [][NextPipeline]_vars

\* ------------------------------- estimate_reading_order, calls interleaved
\* Each call runs the statements of estimate_reading_order one step at a
\* time; the steps of different calls interleave in any order.  pc, args
\* and result are indexed by the call; frames holds the local variables
\* is_4koma and panel_centers_y of every call.
\* the frame of a call: locals are created by the call itself
SharedFrame(i) == 1

Frame(i) == i

\* the pages the calls are given: one panel, two panels side by side, four
\* full-width strips from the bottom up and from the top down
InterleavedPanelLists ==
  {<<TallBox(FullWidth, 0)>>,
   <<TallBox(LeftColumn, 0), TallBox(RightColumn, 0)>>,
   [r \in 1..KomaPanels |-> RowBox(FullWidth, KomaPanels - r)],
   [r \in 1..KomaPanels |-> RowBox(FullWidth, r - 1)]}

InitInterleaved ==
  /\ panels = <<>>
  /\ page_width = StandardPage[1]
  /\ page_height = StandardPage[2]
  /\ pc = [i \in 1..Invocations |-> "called"]
  /\ \E ls \in [1..Invocations -> InterleavedPanelLists],
         flags \in [1..Invocations -> {"None", "True", "False"}] :
       args = [i \in 1..Invocations |->
                 [panels |-> ls[i], page_width |-> StandardPage[1],
                  page_height |-> StandardPage[2], is_4koma |-> flags[i],
                  min_gutter_size |-> DefaultMinGutterSize]]
  /\ result = [i \in 1..Invocations |-> [raised |-> "none", value |-> <<>>]]
  /\ frames = [f \in 1..Invocations |->
                 [is_4koma |-> "None", panel_centers_y |-> <<>>]]

\* "if not panels: return []", "if len(panels) == 1: return [0]"
CheckTrivial(i) ==
  /\ pc[i] = "called"
  /\ IF Len(args[i].panels) <= 1
     THEN /\ result' = [result EXCEPT ![i] =
                          [raised |-> "none",
                           value |-> TrivialOrder(args[i].panels)]]
          /\ pc' = [pc EXCEPT ![i] = "returned"]
     ELSE /\ pc' = [pc EXCEPT ![i] = "auto_detect"]
          /\ result' = result
  /\ UNCHANGED <<panels, page_width, page_height, args, frames>>

\* "Auto-detect 4-koma if not specified"
AutoDetect(i) ==
  /\ pc[i] = "auto_detect"
  /\ frames' = [frames EXCEPT ![Frame(i)].is_4koma =
                  IF args[i].is_4koma # "None" THEN args[i].is_4koma
                  ELSE IF detect_4koma_layout(args[i].panels,
                            args[i].page_width, args[i].page_height)
                       THEN "True" ELSE "False"]
  /\ pc' = [pc EXCEPT ![i] = "branch"]
  /\ UNCHANGED <<panels, page_width, page_height, args, result>>

\* "if is_4koma:" and the list panel_centers_y of (index, centre y)
BranchOn4koma(i) ==
  /\ pc[i] = "branch"
  /\ IF frames[Frame(i)].is_4koma = "True"
     THEN /\ frames' = [frames EXCEPT ![Frame(i)].panel_centers_y =
                          [k \in DOMAIN args[i].panels |->
                             [key |-> <<bbox_center(args[i].panels[k])[2]>>,
                              val |-> k - 1]]]
          /\ pc' = [pc EXCEPT ![i] = "sort"]
     ELSE /\ pc' = [pc EXCEPT ![i] = "tree"]
          /\ frames' = frames
  /\ UNCHANGED <<panels, page_width, page_height, args, result>>

\* panel_centers_y.sort(...) and the return of the 4-koma branch
SortAndReturn(i) ==
  /\ pc[i] = "sort"
  /\ LET sorted == StableSort(frames[Frame(i)].panel_centers_y)
     IN result' = [result EXCEPT ![i] =
                     [raised |-> "none",
                      value |-> [k \in DOMAIN sorted |-> sorted[k].val]]]
  /\ pc' = [pc EXCEPT ![i] = "returned"]
  /\ UNCHANGED <<panels, page_width, page_height, args, frames>>

\* "Build division tree" to the end of the function
TreeAndReturn(i) ==
  /\ pc[i] = "tree"
  /\ LET order == OrderFromTree(args[i].panels, {},
                    build_division_tree(args[i].panels, args[i].page_width,
                      args[i].page_height, args[i].min_gutter_size,
                      DefaultMaxDepth))
     IN result' = [result EXCEPT ![i] =
                     [raised |-> order.raised, value |-> order.value]]
  /\ pc' = [pc EXCEPT ![i] = "returned"]
  /\ UNCHANGED <<panels, page_width, page_height, args, frames>>

NextInterleaved ==
  \E i \in 1..Invocations :
    \/ CheckTrivial(i)
    \/ AutoDetect(i)
    \/ BranchOn4koma(i)
    \/ SortAndReturn(i)
    \/ TreeAndReturn(i)

SpecInterleaved == InitInterleaved /\ [][NextInterleaved]_vars

\* ------------------------------------------- chapter-processing request
\* (src/src/application/services/manga_processor.py,
\* src/src/presentation/api/schemas.py,
\* src/src/presentation/api/routes/processing.py)  A request carries a list
\* of image paths; exists is the set of paths that are files at the moment;
\* pipeline says whether process_manga_chapter would return or raise.
\* HTTP status codes of the route and of FastAPI's request validation
Accepted == 202
BadRequest == 400
UnprocessableEntity == 422
InternalServerError == 500

\* ProcessChapterRequest: min_items=1 and validate_image_paths
ProcessChapterRequest(image_paths, exists) ==
  IF Len(image_paths) < 1 THEN "ValidationError"
  ELSE IF \E k \in DOMAIN image_paths : image_paths[k] \notin exists
  THEN "ValueError"
  ELSE "none"

\* "Validate all paths exist": what the body of the first try raises
PathsExist(image_paths, exists) ==
  IF \E k \in DOMAIN image_paths : image_paths[k] \notin exists
  THEN "ValidationError"
  ELSE "none"

\* MangaProcessingService.process_chapter; result [raised, pipeline_called]
\* (variant: the first except clause raises ProcessingError)
process_chapter_as_processing_error(image_paths, exists, pipeline) ==
  IF image_paths = <<>>
  THEN [raised |-> "ValidationError", pipeline_called |-> FALSE]
  ELSE IF PathsExist(image_paths, exists) # "none"
  THEN [raised |-> "ProcessingError", pipeline_called |-> FALSE]
  ELSE IF pipeline = "raises"
  THEN [raised |-> "ProcessingError", pipeline_called |-> TRUE]
  ELSE [raised |-> "none", pipeline_called |-> TRUE]

process_chapter(image_paths, exists, pipeline) ==
  IF image_paths = <<>>
  THEN [raised |-> "ValidationError", pipeline_called |-> FALSE]
  ELSE IF PathsExist(image_paths, exists) # "none"
  THEN [raised |-> "ValidationError", pipeline_called |-> FALSE]
  ELSE IF pipeline = "raises"
  THEN [raised |-> "ProcessingError", pipeline_called |-> TRUE]
  ELSE [raised |-> "none", pipeline_called |-> TRUE]

\* the route: the status it answers for what the service did
StatusFor(served) ==
  IF served.raised = "ValidationError" THEN BadRequest
  ELSE IF served.raised = "ProcessingError" THEN InternalServerError
  ELSE Accepted

ImagePaths == {"page1.jpg", "page2.jpg"}

InitRequest ==
  /\ panels = <<>>
  /\ page_width = StandardPage[1]
  /\ page_height = StandardPage[2]
  /\ pc = "ready"
  /\ \E n \in 0..MaxImages : \E image_paths \in [1..n -> ImagePaths] :
       \E exists \in SUBSET ImagePaths, pipeline \in {"returns", "raises"} :
         args = [image_paths |-> image_paths, exists |-> exists,
                 pipeline |-> pipeline]
  /\ result = [raised |-> "none"]
  /\ frames = <<>>

\* the service called directly
ProcessChapter ==
  /\ pc = "ready"
  /\ result' = process_chapter(args.image_paths, args.exists, args.pipeline)
  /\ pc' = "process_chapter"
  /\ UNCHANGED <<panels, page_width, page_height, args, frames>>

\* POST /api/v1/processing/chapter: FastAPI builds the body first and
\* answers 422 when the schema rejects it
ValidateBody ==
  /\ pc = "ready"
  /\ IF ProcessChapterRequest(args.image_paths, args.exists) # "none"
     THEN /\ result' = [raised |-> "none", pipeline_called |-> FALSE,
                        status |-> UnprocessableEntity]
          /\ pc' = "responded"
     ELSE /\ pc' = "validated"
          /\ result' = result
  /\ UNCHANGED <<panels, page_width, page_height, args, frames>>

\* a file is removed between the validation of the body and the service call
FileRemoved ==
  /\ pc = "validated"
  /\ \E path \in args.exists : args' = [args EXCEPT !.exists = @ \ {path}]
  /\ UNCHANGED <<panels, page_width, page_height, pc, result, frames>>

\* the route function: service.process_chapter and the two except clauses
RouteProcessChapter ==
  /\ pc = "validated"
  /\ LET served == process_chapter(args.image_paths, args.exists,
                                   args.pipeline)
     IN result' = [raised |-> "none",
                   pipeline_called |-> served.pipeline_called,
                   status |-> StatusFor(served)]
  /\ pc' = "responded"
  /\ UNCHANGED <<panels, page_width, page_height, args, frames>>

NextRequest ==
  ProcessChapter \/ ValidateBody \/ FileRemoved \/ RouteProcessChapter

SpecRequest == InitRequest /\ [][NextRequest]_vars

\* ------------------------------------------------ calculate_bbox_overlap
\* (src/src/domain/utils.py, src/src/domain/entities.py)
\* BoundingBox.from_list
BoundingBox(bbox) ==
  [x1 |-> bbox[1], y1 |-> bbox[2], x2 |-> bbox[3], y2 |-> bbox[4]]

\* (variant: "and" for "or" in the test for an empty intersection)
calculate_bbox_overlap_and(bbox1, bbox2) ==
  LET inter_x1 == IF bbox1.x1 > bbox2.x1 THEN bbox1.x1 ELSE bbox2.x1
      inter_y1 == IF bbox1.y1 > bbox2.y1 THEN bbox1.y1 ELSE bbox2.y1
      inter_x2 == IF bbox1.x2 < bbox2.x2 THEN bbox1.x2 ELSE bbox2.x2
      inter_y2 == IF bbox1.y2 < bbox2.y2 THEN bbox1.y2 ELSE bbox2.y2
  IN IF inter_x2 <= inter_x1 /\ inter_y2 <= inter_y1
     THEN 0
     ELSE (inter_x2 - inter_x1) * (inter_y2 - inter_y1)

calculate_bbox_overlap(bbox1, bbox2) ==
  LET inter_x1 == IF bbox1.x1 > bbox2.x1 THEN bbox1.x1 ELSE bbox2.x1
      inter_y1 == IF bbox1.y1 > bbox2.y1 THEN bbox1.y1 ELSE bbox2.y1
      inter_x2 == IF bbox1.x2 < bbox2.x2 THEN bbox1.x2 ELSE bbox2.x2
      inter_y2 == IF bbox1.y2 < bbox2.y2 THEN bbox1.y2 ELSE bbox2.y2
  IN IF inter_x2 <= inter_x1 \/ inter_y2 <= inter_y1
     THEN 0
     ELSE (inter_x2 - inter_x1) * (inter_y2 - inter_y1)

\* every box with coordinates in 0..MaxCoord: proper, zero-area, inverted
CoordBoxes ==
  {<<x1, y1, x2, y2>> : x1 \in 0..MaxCoord, y1 \in 0..MaxCoord,
                        x2 \in 0..MaxCoord, y2 \in 0..MaxCoord}

\* the pair of test_bbox_overlap_partial_overlap
TestOverlapPair == [a |-> <<0, 0, 10, 10>>, b |-> <<5, 5, 15, 15>>]

InitOverlap ==
  /\ panels = <<>>
  /\ page_width = StandardPage[1]
  /\ page_height = StandardPage[2]
  /\ pc = "ready"
  /\ \/ args = TestOverlapPair
     \/ \E a \in CoordBoxes, b \in CoordBoxes : args = [a |-> a, b |-> b]
  /\ result = [raised |-> "none"]
  /\ frames = <<>>

CalculateBboxOverlap ==
  /\ pc = "ready"
  /\ result' = [raised |-> "none",
                value |-> calculate_bbox_overlap(BoundingBox(args.a),
                                                 BoundingBox(args.b))]
  /\ pc' = "calculate_bbox_overlap"
  /\ UNCHANGED <<panels, page_width, page_height, args, frames>>

BboxOverlap ==
  /\ pc = "ready"
  /\ result' = [raised |-> "none", value |-> bbox_overlap(args.a, args.b)]
  /\ pc' = "bbox_overlap"
  /\ UNCHANGED <<panels, page_width, page_height, args, frames>>

NextOverlap == CalculateBboxOverlap \/ BboxOverlap

SpecOverlap == InitOverlap /\ [][NextOverlap]_vars

\* ======================================================= timeline generation
\* src/core/semantic/timeline_generator.py.  Times are in microseconds,
\* complexity scores in hundredths, intensities in tenths, panel areas in
\* units of 10,000 square pixels, so that every product below is exact.
WORDS_PER_MINUTE == 200

CHARACTERS_PER_MINUTE == 1000

\* 2.0 s and 30.0 s
MIN_PANEL_TIME == 2000000

MAX_PANEL_TIME == 30000000

\* "* 60  # Convert to seconds"
MinuteMicros == 60000000

\* base_viewing_time = 3.0
BaseViewingTime == 3000000

\* "0.5 second gap between pages"
PageGap == 500000

\* a text is given by its two lengths: characters, and words of text.split()
count_text_length(text, language) ==
  IF language = "ja" \/ language = "zh" THEN text.characters ELSE text.words

estimate_reading_time(panel_texts, language) ==
  LET total_length == SeqSum([k \in DOMAIN panel_texts |->
                                count_text_length(panel_texts[k], language)])
      reading_speed == IF language = "ja" \/ language = "zh"
                       THEN CHARACTERS_PER_MINUTE ELSE WORDS_PER_MINUTE
  IN total_length * (MinuteMicros \div reading_speed)

\* in hundredths; the lists of the panel entry are given by their lengths
calculate_image_complexity(panel_data) ==
  LET complexity == SetMin({panel_data.character * 10, 30})
                    + SetMin({panel_data.manpu * 5, 20})
                    + SetMin({panel_data.onomatopoeia * 5, 15})
                    + SetMin({panel_data.panel_area, 35})
  IN SetMin({complexity, 100})

\* base_viewing_time * (1.0 + complexity) * (1.0 + intensity * 0.3)
estimate_viewing_time(panel_data) ==
  (BaseViewingTime \div 10000)
    * (100 + calculate_image_complexity(panel_data))
    * (100 + 3 * panel_data.intensity)

\* "Total duration" and "Apply min/max constraints", the two times given
ClampedDuration(reading_time, viewing_time) ==
  LET duration == SetMax({reading_time, viewing_time})
                  + (SetMin({reading_time, viewing_time}) * 3) \div 10
  IN SetMax({MIN_PANEL_TIME, SetMin({duration, MAX_PANEL_TIME})})

\* the TimelineEntry of one panel, its duration given
TimelineEntry(panel_data, start_time, reading_time, viewing_time, duration) ==
  [panel_id |-> panel_data.panel.panel_id,
   start_time |-> start_time,
   end_time |-> start_time + duration,
   duration |-> duration,
   reading_time |-> reading_time,
   viewing_time |-> viewing_time]

\* the TimelineEntry of one panel, its two estimates given
TimedPanel(panel_data, start_time, reading_time, viewing_time) ==
  TimelineEntry(panel_data, start_time, reading_time, viewing_time,
                ClampedDuration(reading_time, viewing_time))

generate_timeline_for_panel(panel_data, start_time, language) ==
  TimedPanel(panel_data, start_time,
             estimate_reading_time(panel_data.content, language),
             estimate_viewing_time(panel_data))

\* sorted(panel_entries, key=... .get("reading_order", 0))
SortedByReadingOrder(panel_entries) ==
  LET s == StableSort([k \in DOMAIN panel_entries |->
             [key |-> <<IF "reading_order" \in DOMAIN panel_entries[k].panel
                        THEN panel_entries[k].panel.reading_order ELSE 0>>,
              val |-> panel_entries[k]]])
  IN [k \in DOMAIN s |-> s[k].val]

\* "for panel_entry in panel_entries": the entries of the panels left, the
\* entry of the first one given
RECURSIVE PanelLoop(_, _, _)
PanelLoopFrom(panel_entries, language, timeline_entry) ==
  <<timeline_entry>>
    \o PanelLoop(Tail(panel_entries), timeline_entry.end_time, language)

PanelLoop(panel_entries, current_time, language) ==
  IF panel_entries = <<>> THEN <<>>
  ELSE PanelLoopFrom(panel_entries, language,
         generate_timeline_for_panel(Head(panel_entries), current_time,
                                     language))

\* (variant: the panels are timed in list order)
generate_timeline_for_page_unsorted(page_entry, start_time, language) ==
  PanelLoop(page_entry.content, start_time, language)

generate_timeline_for_page(page_entry, start_time, language) ==
  PanelLoop(IF /\ page_entry.content # <<>>
               /\ "reading_order" \in DOMAIN page_entry.content[1].panel
            THEN SortedByReadingOrder(page_entry.content)
            ELSE page_entry.content,
            start_time, language)

\* page_entry["page"]["timeline"] of a page: set when the page has panels
PageTimeline(page_timeline) ==
  IF page_timeline = <<>> THEN <<>>
  ELSE <<[start_time |-> page_timeline[1].start_time,
          end_time |-> page_timeline[Len(page_timeline)].end_time,
          duration |-> page_timeline[Len(page_timeline)].end_time
                       - page_timeline[1].start_time]>>

\* "for page_entry in chapter_entries": the pages left; done holds the
\* entries collected so far and the page timelines set so far
RECURSIVE PageLoop(_, _, _, _)
PageLoopFrom(chapter_entries, current_time, language, done, page_timeline) ==
  PageLoop(Tail(chapter_entries),
           IF page_timeline # <<>>
           THEN page_timeline[Len(page_timeline)].end_time + PageGap
           ELSE current_time,
           language,
           [entries |-> done.entries \o page_timeline,
            pages |-> Append(done.pages, PageTimeline(page_timeline))])

PageLoop(chapter_entries, current_time, language, done) ==
  IF chapter_entries = <<>> THEN done
  ELSE PageLoopFrom(chapter_entries, current_time, language, done,
         generate_timeline_for_page(Head(chapter_entries), current_time,
                                    language))

\* result: [entries, pages]; every panel entry gets a "timeline" of the
\* same five values as its TimelineEntry
generate_timeline_for_chapter(chapter_entries, language, start_time) ==
  PageLoop(chapter_entries, start_time, language,
           [entries |-> <<>>, pages |-> <<>>])

\* Three panel entries: an empty panel of a calm scene (3.0 s of viewing), a
\* large panel with three characters and a long text (1000 characters, 20
\* words), and a panel whose scene intensity is far below the documented
\* range 0.0 .. 1.0 (a negative viewing time).  order = 0: the panel has no
\* "reading_order".
PanelKinds ==
  {[content |-> <<>>, character |-> 0, manpu |-> 0, onomatopoeia |-> 0,
    panel_area |-> 0, intensity |-> 0],
   [content |-> <<[characters |-> 1000, words |-> 20]>>, character |-> 3,
    manpu |-> 0, onomatopoeia |-> 0, panel_area |-> 50, intensity |-> 5],
   [content |-> <<>>, character |-> 0, manpu |-> 0, onomatopoeia |-> 0,
    panel_area |-> 0, intensity |-> -100]}

PanelEntry(kind, panel_id, order) ==
  [panel |-> IF order = 0 THEN [panel_id |-> panel_id]
             ELSE [panel_id |-> panel_id, reading_order |-> order],
   content |-> kind.content, character |-> kind.character,
   manpu |-> kind.manpu, onomatopoeia |-> kind.onomatopoeia,
   panel_area |-> kind.panel_area, intensity |-> kind.intensity]

\* the pages: no panel, one panel, or two different panels (the one of the
\* lower intensity first) that carry no reading_order, or one each, in list
\* order or against it
TimelinePages ==
  {[content |-> <<>>]}
  \cup {[content |-> <<PanelEntry(a, 1, 0)>>] : a \in PanelKinds}
  \cup {[content |-> <<PanelEntry(ab[1], 1, o[1]), PanelEntry(ab[2], 2, o[2])>>] :
          ab \in {x \in PanelKinds \X PanelKinds :
                   x[1].intensity < x[2].intensity},
          o \in {<<0, 0>>, <<1, 2>>, <<2, 1>>}}

InitTimeline ==
  /\ \E n \in 0..MaxChapterPages :
       \E chapter_entries \in [1..n -> TimelinePages] :
         args = [chapter_entries |-> chapter_entries, language |-> "ja",
                 start_time |-> 0]
  /\ panels = <<>>
  /\ page_width = StandardPage[1]
  /\ page_height = StandardPage[2]
  /\ pc = "ready"
  /\ result = [raised |-> "none"]
  /\ frames = <<>>

GenerateTimelineForChapter ==
  /\ pc = "ready"
  /\ \E language \in {"ja", "en"} :
       /\ args' = [args EXCEPT !.language = language]
       /\ LET done == generate_timeline_for_chapter(args.chapter_entries,
                                                    language, args.start_time)
          IN result' = [raised |-> "none", value |-> done.entries,
                        pages |-> done.pages]
  /\ pc' = "generate_timeline_for_chapter"
  /\ UNCHANGED <<panels, page_width, page_height, frames>>

NextTimeline == GenerateTimelineForChapter

SpecTimeline == InitTimeline /\ [][NextTimeline]_vars

\* ================================================================== claims
Estimated == pc = "estimate_reading_order"

\* value lists each of 0 .. n-1 exactly once
IsPermutation(value, n) ==
  /\ Len(value) = n
  /\ \A idx \in 0..(n - 1) :
       Cardinality({k \in DOMAIN value : value[k] = idx}) = 1

CenterY(bbox) == bbox[2] + bbox[4]

Proper(bbox) == bbox[1] < bbox[3] /\ bbox[2] < bbox[4]

\* position (1-based) of index idx in an order, 0 when absent
PositionOf(value, idx) ==
  IF \E k \in DOMAIN value : value[k] = idx
  THEN SetMin({k \in DOMAIN value : value[k] = idx})
  ELSE 0

\* C1: for every input list of n panels (any page size, any is_4koma value)
\* estimate_reading_order returns a list of length n that contains each
\* index 0 .. n-1 exactly once.
C1_Permutation ==
  Estimated =>
    /\ result.raised = "none"
    /\ IsPermutation(result.value, Len(panels))

\* C2: estimate_reading_order never raises for a finite input; it returns a
\* list also on the path through build_division_tree and detect_gutters.
C2_NeverRaises ==
  Estimated => result.raised = "none"

\* C3: estimate_reading_order returns [] for an empty panel list and [0] for
\* a one-panel list, whatever page size, is_4koma and min_gutter_size are,
\* and calls neither the 4-koma detection nor the tree builder.
C3_TrivialInputs ==
  Estimated /\ Len(panels) <= 1 =>
    /\ result.raised = "none"
    /\ Len(panels) = 0 => result.value = <<>>
    /\ Len(panels) = 1 => result.value = <<0>>
    /\ result.calls = {}

C3_Witness ==
  /\ Estimated
  /\ Len(panels) = 1
  /\ args.is_4koma = "False"
  /\ args.min_gutter_size = 1
  /\ result.value = <<0>>

\* C4: two panels side by side with a horizontal gap of at least
\* min_gutter_size: the index of the right panel comes before the index of
\* the left panel ([1,0] for [[0,0,50,100],[60,0,110,100]], gutter size 10).
C4_RightPanelFirst ==
  Estimated /\ Len(panels) = 2 /\ args.is_4koma # "True" =>
    \A l, r \in 1..2 :
      ( /\ Proper(panels[l]) /\ Proper(panels[r])
        /\ panels[l][2] = panels[r][2] /\ panels[l][4] = panels[r][4]
        /\ panels[r][1] - panels[l][3] >= args.min_gutter_size )
      => /\ result.raised = "none"
         /\ PositionOf(result.value, r - 1) = 1
         /\ PositionOf(result.value, l - 1) = 2

\* C5: detect_gutters returns a vertical gutter at the midpoint of every gap
\* of at least min_gutter_size between panels adjacent in x-start order; for
\* [[0,0,50,100],[60,0,110,100]] and threshold 10 it returns no horizontal
\* gutter and exactly one vertical gutter, at position 55 (stored doubled).
C5_VerticalGutters ==
  pc = "detect_gutters" /\ Len(panels) = 2 =>
    /\ \A l, r \in 1..2 :
         ( /\ l # r
           /\ panels[l][1] <= panels[r][1]
           /\ panels[r][1] - panels[l][3] >= args.min_gutter_size )
         => /\ result.raised = "none"
            /\ \E k \in DOMAIN result.vertical :
                 result.vertical[k].position = panels[r][1] + panels[l][3]
    /\ ( /\ panels = << <<0, 0, 50, 100>>, <<60, 0, 110, 100>> >>
         /\ args.min_gutter_size = 10 )
       => /\ result.raised = "none"
          /\ result.horizontal = <<>>
          /\ Len(result.vertical) = 1
          /\ result.vertical[1].position = 2 * 55

\* C6: when detect_4koma_layout is true for the input and is_4koma is not
\* given, the result is the indices in ascending order of vertical centre,
\* build_division_tree and detect_gutters are not called, and the four
\* stacked full-width panels of the example give [0,1,2,3].
C6_KomaOrder ==
  ( /\ Estimated
    /\ args.is_4koma = "None"
    /\ detect_4koma_layout(panels, page_width, page_height) )
  => /\ result.raised = "none"
     /\ IsPermutation(result.value, Len(panels))
     /\ \A k \in 1..(Len(panels) - 1) :
          CenterY(panels[result.value[k] + 1])
            <= CenterY(panels[result.value[k + 1] + 1])
     /\ result.calls \cap {"build_division_tree", "detect_gutters"} = {}
     /\ panels = << <<0, 0, 100, 25>>, <<0, 25, 100, 50>>,
                    <<0, 50, 100, 75>>, <<0, 75, 100, 100>> >>
        => result.value = <<0, 1, 2, 3>>

C6_Witness ==
  /\ Estimated
  /\ args.is_4koma = "None"
  /\ detect_4koma_layout(panels, page_width, page_height)
  /\ result.value = <<2, 0, 3, 1>>

C9_ZeroAreaBox ==
  Estimated /\ Len(panels) >= 2 =>
    \A i \in DOMAIN panels :
      panels[i][1] = panels[i][3]
      => /\ result.raised = "none"
         /\ Cardinality({k \in DOMAIN result.value :
                           result.value[k] = i - 1}) = 1

\* C10: among splitting gutters of equal minimal imbalance select_best_gutter
\* returns the first in enumeration order, horizontal before vertical; hence
\* a symmetric 2x2 grid of four equal panels is split horizontally at the
\* root and read top-right, top-left, bottom-right, bottom-left.
C10_GridTieBreak ==
  Estimated /\ Len(panels) = 4 /\ args.is_4koma # "True" =>
    \A tr, tl, br, bl \in 1..4 :
      ( /\ \A i \in 1..4 : Proper(panels[i])
        /\ panels[tl][1] = panels[bl][1] /\ panels[tl][3] = panels[bl][3]
        /\ panels[tr][1] = panels[br][1] /\ panels[tr][3] = panels[br][3]
        /\ panels[tl][2] = panels[tr][2] /\ panels[tl][4] = panels[tr][4]
        /\ panels[bl][2] = panels[br][2] /\ panels[bl][4] = panels[br][4]
        /\ panels[tl][3] - panels[tl][1] = panels[tr][3] - panels[tr][1]
        /\ panels[tl][4] - panels[tl][2] = panels[bl][4] - panels[bl][2]
        /\ panels[tr][1] - panels[tl][3] >= args.min_gutter_size
        /\ panels[bl][2] - panels[tl][4] >= args.min_gutter_size )
      => LET h == [orientation |-> "horizontal",
                   position |-> panels[tl][4] + panels[bl][2],
                   start |-> panels[tl][1], end |-> panels[br][3]]
             v == [orientation |-> "vertical",
                   position |-> panels[tl][3] + panels[tr][1],
                   start |-> panels[tl][2], end |-> panels[br][4]]
         IN /\ select_best_gutter(<<h>>, <<v>>, panels) = h
            /\ result.raised = "none"
            /\ result.value = <<tr - 1, tl - 1, br - 1, bl - 1>>

\* the candidates of a select_best_gutter call, each with the axis its list
\* is counted along (1 = x for the vertical list, 2 = y for the horizontal)
SelectCandidates ==
  {[gutter |-> args.horizontal_gutters[k], axis |-> 2] :
     k \in DOMAIN args.horizontal_gutters}
  \cup {[gutter |-> args.vertical_gutters[k], axis |-> 1] :
          k \in DOMAIN args.vertical_gutters}

\* the panels whose centre is before the candidate's line, and the others
CentresBefore(c) ==
  {p \in DOMAIN panels :
     (IF c.axis = 1 THEN panels[p][1] + panels[p][3]
      ELSE CenterY(panels[p])) < c.gutter.position}

CentresAfter(c) == DOMAIN panels \ CentresBefore(c)

SplitsPanels(c) == CentresBefore(c) # {} /\ CentresAfter(c) # {}

CountImbalance(c) ==
  Abs(Cardinality(CentresBefore(c)) - Cardinality(CentresAfter(c)))

\* C11: select_best_gutter returns None exactly when no candidate gutter,
\* horizontal or vertical, has a panel centre on each side; otherwise the
\* gutter it returns has a centre on each side and its |count_a - count_b|
\* is minimal among all such candidates of both orientations.
C11_MinimalImbalance ==
  pc = "select_best_gutter" =>
    LET splitting == {c \in SelectCandidates : SplitsPanels(c)}
    IN /\ (result.value = NoGutter) <=> (splitting = {})
       /\ splitting # {} =>
            \E c \in splitting :
              /\ c.gutter = result.value
              /\ \A d \in splitting : CountImbalance(c) <= CountImbalance(d)

\* two splitting candidates of different imbalance, the better one second
C11_Witness ==
  /\ pc = "select_best_gutter"
  /\ Len(args.vertical_gutters) = 2
  /\ \A c \in SelectCandidates : SplitsPanels(c)
  /\ \E c, d \in SelectCandidates : CountImbalance(c) < CountImbalance(d)
  /\ result.value = args.vertical_gutters[2]

\* the gutters detect_gutters has emitted: the list its first loop has
\* built while the second is still to run, the two returned lists after it
EmittedHorizontal ==
  IF pc = "detect_gutters_vertical" THEN frames.horizontal_gutters
  ELSE IF pc = "detect_gutters" THEN result.horizontal
  ELSE <<>>

EmittedVertical == IF pc = "detect_gutters" THEN result.vertical ELSE <<>>

\* the (doubled) midpoints of the gaps wider than zero between panels
\* adjacent in start order along an axis (lo, hi: 2, 4 for y and 1, 3 for x)
PositiveGapLines(lo, hi) ==
  LET ranges == StableSort([p \in DOMAIN panels |->
                  [key |-> <<panels[p][lo]>>, val |-> panels[p]]])
  IN {ranges[i].val[hi] + ranges[i + 1].val[lo] :
        i \in {j \in 1..(Len(panels) - 1) :
                 ranges[j + 1].val[lo] - ranges[j].val[hi] > 0}}

\* C12: detect_gutters returns two empty lists for 0 or 1 panels, and for
\* any panel list and any min_gutter_size it emits no gutter for a pair of
\* panels whose gap is zero or negative: every emitted gutter is at the
\* midpoint of a gap wider than zero.
C12_NoNonPositiveGap ==
  /\ pc = "detect_gutters" /\ Len(panels) <= 1 =>
       /\ result.raised = "none"
       /\ result.horizontal = <<>>
       /\ result.vertical = <<>>
  /\ \A k \in DOMAIN EmittedHorizontal :
       EmittedHorizontal[k].position \in PositiveGapLines(2, 4)
  /\ \A k \in DOMAIN EmittedVertical :
       EmittedVertical[k].position \in PositiveGapLines(1, 3)

\* C13: every gutter of detect_gutters lies in an empty band of the merged
\* panel extents: no panel's extent along the gutter's axis contains the
\* gutter position, also when a tall or wide panel starts earlier in sort
\* order than the adjacent pair.
C13_EmptyBand ==
  args.min_gutter_size > 0 =>
  /\ \A k \in DOMAIN EmittedHorizontal : \A p \in DOMAIN panels :
       ~ ( /\ 2 * panels[p][2] < EmittedHorizontal[k].position
           /\ EmittedHorizontal[k].position < 2 * panels[p][4] )
  /\ \A k \in DOMAIN EmittedVertical : \A p \in DOMAIN panels :
       ~ ( /\ 2 * panels[p][1] < EmittedVertical[k].position
           /\ EmittedVertical[k].position < 2 * panels[p][3] )

Built == pc = "build_division_tree"

\* box a lies inside box b
Inside(a, b) ==
  b[1] <= a[1] /\ b[2] <= a[2] /\ a[3] <= b[3] /\ a[4] <= b[4]

\* C14: for every non-empty panel list build_division_tree returns a tree
\* that covers the input exactly: every input panel lies in exactly one
\* leaf (its own, or the merged leaf of an undivided group), and every leaf
\* is the union of the input panels it holds.
C14_LeavesCoverInput ==
  Built /\ Len(panels) >= 1 =>
    /\ result.raised = "none"
    /\ LET leaves == traverse_tree_rtl(result.node)
           Held(k) == {p \in DOMAIN panels : Inside(panels[p], leaves[k])}
       IN /\ \A p \in DOMAIN panels :
               Cardinality({k \in DOMAIN leaves : p \in Held(k)}) = 1
          /\ \A k \in DOMAIN leaves :
               /\ Held(k) # {}
               /\ leaves[k] = UnionBBox([p \in Held(k) |-> panels[p]])

\* every node of a tree, the root included
RECURSIVE NodesOf(_)
NodesOf(node) ==
  {node} \cup UNION {NodesOf(node.children[k]) : k \in DOMAIN node.children}

RECURSIVE LeafCount(_)
LeafCount(node) ==
  IF node.is_leaf THEN 1
  ELSE SeqSum([k \in DOMAIN node.children |-> LeafCount(node.children[k])])

\* C15: for every non-leaf node of the division tree traverse_tree_rtl lists
\* every leaf of the first child before any leaf of the second child, one
\* bounding box per leaf, and the first child is the subset right of a
\* vertical gutter or above a horizontal one: two panels side by side with
\* a gutter between them give a root whose traversal is right, then left.
C15_FirstChildFirst ==
  Built =>
    /\ result.raised = "none" =>
         \A node \in NodesOf(result.node) :
           ~ node.is_leaf =>
             /\ traverse_tree_rtl(node)
                  = traverse_tree_rtl(node.children[1])
                    \o traverse_tree_rtl(node.children[2])
             /\ Len(traverse_tree_rtl(node)) = LeafCount(node)
             /\ \/ node.children[1].bbox[1] >= node.children[2].bbox[3]
                \/ node.children[1].bbox[4] <= node.children[2].bbox[2]
    /\ \A l, r \in DOMAIN panels :
         ( /\ Len(panels) = 2
           /\ args.max_depth >= 1
           /\ panels[r][1] - panels[l][3] > 0
           /\ panels[r][1] - panels[l][3] >= args.min_gutter_size )
         => /\ result.raised = "none"
            /\ ~ result.node.is_leaf
            /\ traverse_tree_rtl(result.node) = <<panels[r], panels[l]>>

\* the largest number of non-leaf nodes on a path from node to a leaf
RECURSIVE NonLeafDepth(_)
NonLeafDepth(node) ==
  IF node.is_leaf \/ node.children = <<>> THEN 0
  ELSE 1 + SetMax({NonLeafDepth(node.children[k]) :
                     k \in DOMAIN node.children})

\* C19: build_division_tree ends for every panel list and every max_depth;
\* no path of a returned tree has more than max_depth non-leaf nodes; and
\* with max_depth 0 and two or more panels the call returns, without
\* failing, a single leaf whose bbox is the union of the panels.
C19_DepthBound ==
  Built =>
    /\ result.raised \in {"none", "IndexError", "ValueError"}
    /\ result.raised = "none" => NonLeafDepth(result.node) <= args.max_depth
    /\ args.max_depth = 0 /\ Len(panels) >= 2 =>
         /\ result.raised = "none"
         /\ result.node = [bbox |-> UnionBBox(panels), children |-> <<>>,
                           is_leaf |-> TRUE]

C19_Witness ==
  /\ Built
  /\ args.max_depth = 0
  /\ Len(panels) = 3
  /\ Distinct(panels)
  /\ result.raised = "none"
  /\ result.node.is_leaf
  /\ result.node.bbox = <<0, 0, 3, GutterRows>>

\* box a is separated from box b by a gutter of at least min_gutter_size:
\* a is right of b, or a is above b
RightOf(a, b) ==
  a[1] - b[3] > 0 /\ a[1] - b[3] >= args.min_gutter_size

Above(a, b) ==
  b[2] - a[4] > 0 /\ b[2] - a[4] >= args.min_gutter_size

\* C16: the reconciliation is consistent with the geometric order: when the
\* division tree has one leaf per input panel, the k-th index of the output
\* designates the panel whose bbox is the k-th bbox of the traversal.  For
\* two panels separated by one gutter the traversal is the right (or top)
\* panel, then the other one.
C16_IndicesFollowTraversal ==
  Estimated /\ Len(panels) = 2 /\ args.is_4koma = "False" =>
    \A a, b \in 1..2 :
      ( /\ Proper(panels[a]) /\ Proper(panels[b])
        /\ \/ RightOf(panels[a], panels[b]) /\ ~ Above(panels[a], panels[b])
              /\ ~ Above(panels[b], panels[a])
           \/ Above(panels[a], panels[b]) /\ ~ RightOf(panels[a], panels[b])
              /\ ~ RightOf(panels[b], panels[a]) )
      => /\ result.raised = "none"
         /\ Len(result.value) = 2
         /\ panels[result.value[1] + 1] = panels[a]
         /\ panels[result.value[2] + 1] = panels[b]

\* the fallback sort key of a panel index (0-based): (-centre x, centre y)
FallbackKey(idx) ==
  <<0 - (panels[idx + 1][1] + panels[idx + 1][3]), CenterY(panels[idx + 1])>>

\* C17: when no gutter can split a list of two or more panels (every gap is
\* narrower than min_gutter_size) estimate_reading_order emits the indices
\* in descending order of centre x, then ascending order of centre y.
C17_FallbackOrder ==
  ( /\ Estimated
    /\ Len(panels) >= 2
    /\ args.is_4koma = "False"
    /\ \A a, b \in DOMAIN panels :
         /\ panels[a][1] - panels[b][3] < args.min_gutter_size
         /\ panels[a][2] - panels[b][4] < args.min_gutter_size )
  => /\ result.raised = "none"
     /\ IsPermutation(result.value, Len(panels))
     /\ \A k \in 1..(Len(panels) - 1) :
          ~ KeyLess(FallbackKey(result.value[k + 1]),
                    FallbackKey(result.value[k]))

\* C18: after enhance_json_with_reading_order every page entry with n >= 1
\* panels holds the same n panel records, reordered by the index list of
\* estimate_reading_order, the record at position i (0-based) carrying
\* reading_order i + 1, so the values are exactly 1..n; entries without
\* panels pass through unchanged.
C18_PanelsReordered ==
  pc = "enhance_json_with_reading_order" =>
    /\ result.raised = "none"
    /\ Len(result.value) = Len(args.chapter_entries)
    /\ \A k \in DOMAIN args.chapter_entries :
         LET before == args.chapter_entries[k].content
             after == result.value[k].content
         IN /\ Len(after) = Len(before)
            /\ before = <<>> => result.value[k] = args.chapter_entries[k]
            /\ \A i \in DOMAIN before :
                 Cardinality({j \in DOMAIN after :
                                after[j] = [before[i] EXCEPT
                                              !.reading_order = j]}) = 1
            /\ {after[j].reading_order : j \in DOMAIN after}
                 = 1..Len(before)

\* what call i returns or raises when it runs alone
RunAlone(i) ==
  estimate_reading_order(args[i].panels, args[i].page_width,
                         args[i].page_height, args[i].is_4koma,
                         args[i].min_gutter_size)

\* C20: calls of estimate_reading_order whose steps interleave in any order
\* each return (or raise) what the same call returns when it runs alone:
\* the calls share no mutable state.
C20_InterleavingIndependent ==
  \A i \in DOMAIN pc :
    pc[i] = "returned" =>
      /\ result[i].raised = RunAlone(i).raised
      /\ result[i].value = RunAlone(i).value

\* call 1 has returned the 4-koma order of the strips given bottom-up while
\* call 2, on another page, stands between its detection and its tree
C20_Witness ==
  /\ pc[1] = "returned"
  /\ result[1].value = <<3, 2, 1, 0>>
  /\ args[1].is_4koma = "None"
  /\ pc[2] = "tree"
  /\ args[2].panels # args[1].panels

\* the request's image list is empty or names a path that is no file
RequestInvalid ==
  \/ args.image_paths = <<>>
  \/ \E k \in DOMAIN args.image_paths : args.image_paths[k] \notin args.exists

CommonCells(a, b) ==
  LET lo == SetMin({a[1], a[2], b[1], b[2]})
      hi == SetMax({a[3], a[4], b[3], b[4]})
      In(i, j, c) == c[1] <= i /\ i + 1 <= c[3] /\ c[2] <= j /\ j + 1 <= c[4]
  IN {<<i, j>> \in (lo..hi) \X (lo..hi) : In(i, j, a) /\ In(i, j, b)}

\* C22: calculate_bbox_overlap and bbox_overlap return the area of the
\* intersection rectangle of the two boxes when they intersect with
\* positive extent on both axes and 0 otherwise (disjoint, touching,
\* zero-area or inverted boxes), and the same value with the arguments
\* swapped; 25 for the boxes of the unit test.
C22_OverlapArea ==
  pc \in {"calculate_bbox_overlap", "bbox_overlap"} =>
    /\ result.value = Cardinality(CommonCells(args.a, args.b))
    /\ result.value = calculate_bbox_overlap(BoundingBox(args.b),
                                             BoundingBox(args.a))
    /\ result.value = bbox_overlap(args.b, args.a)
    /\ args = TestOverlapPair => result.value = 25

C22_Witness ==
  /\ pc = "calculate_bbox_overlap"
  /\ args.a = <<0, 0, 2, 2>>
  /\ args.b = <<1, 0, 2, 1>>
  /\ result.value = 1

Divided == pc = "divide_panels_by_gutter"

\* box b is an element of the list l
InList(b, l) == \E k \in DOMAIN l : l[k] = b

\* C23: a panel whose centre lies exactly on the selected gutter falls to
\* one side, the same in the counting of select_best_gutter and in
\* divide_panels_by_gutter: to the bottom group (second) for a horizontal
\* gutter, to the right group (first) for a vertical one; only centres
\* strictly less than the position go to the top or left group.
C23_OnTheLine ==
  Divided =>
    LET g == result.value
        horizontal == g.orientation = "horizontal"
        axis == IF horizontal THEN 2 ELSE 1
        low == IF horizontal THEN result.group1 ELSE result.group2
        high == IF horizontal THEN result.group2 ELSE result.group1
        Centre(b) == IF horizontal THEN CenterY(b) ELSE b[1] + b[3]
    IN /\ \A p \in DOMAIN panels :
            /\ InList(panels[p], low) <=> Centre(panels[p]) < g.position
            /\ InList(panels[p], high) <=> Centre(panels[p]) >= g.position
       /\ Len(low) = CountBelow(panels, axis, g)
       /\ Len(high) = CountAtOrAbove(panels, axis, g)

\* a horizontal gutter through the centre of a panel, which went to the
\* bottom group
C23_Witness ==
  /\ Divided
  /\ result.value.orientation = "horizontal"
  /\ \E p \in DOMAIN panels :
       /\ CenterY(panels[p]) = result.value.position
       /\ InList(panels[p], result.group2)
       /\ ~ InList(panels[p], result.group1)

\* no two panels of the page are separated by a gap of min_gutter_size, so
\* the division tree is one merged leaf and the traversal is its union bbox
NoGapAnywhere ==
  \A a, b \in DOMAIN panels :
    /\ panels[a][1] - panels[b][3] < args.min_gutter_size
    /\ panels[a][2] - panels[b][4] < args.min_gutter_size

\* C24: for each bbox of the traversal the reconciliation picks, among the
\* unused panels, the lowest-index panel that overlaps it with positive area
\* if there is one, else the panel with the nearest centre; the picked index
\* is appended and marked used.  For a page of proper panels without gaps the
\* traversal is the union bbox, every panel overlaps it, and the index
\* picked and appended first is 0.
C24_PickOverlapping ==
  ( /\ Estimated
    /\ Len(panels) >= 2
    /\ args.is_4koma = "False"
    /\ NoGapAnywhere
    /\ \A i \in DOMAIN panels : Proper(panels[i]) )
  => /\ result.raised = "none"
     /\ Len(result.value) >= 1
     /\ result.value[1] = 0
     /\ \A k \in DOMAIN result.value : k > 1 => result.value[k] # 0

\* C25: the indices still unused once the traversal is consumed (the extra
\* panels of a merged leaf) are appended after all matched indices in
\* ascending original order.  For a page of proper panels without gaps one
\* index is matched and the other n - 1 follow in list order.
C25_RemainingAppended ==
  ( /\ Estimated
    /\ Len(panels) >= 2
    /\ args.is_4koma = "False"
    /\ NoGapAnywhere
    /\ \A i \in DOMAIN panels : Proper(panels[i]) )
  => /\ result.raised = "none"
     /\ Len(result.value) = Len(panels)
     /\ \A j, k \in 2..Len(result.value) :
          j < k => result.value[j] < result.value[k]

\* C26: an explicit is_4koma replaces the detection for two or more panels:
\* with True the output is the indices in ascending order of centre y,
\* whatever the layout, and neither detect_4koma_layout nor the division
\* tree is used; with False the division tree is built even when
\* detect_4koma_layout returns true for the page, and the layout is not
\* detected.
C26_ExplicitFlag ==
  Estimated /\ Len(panels) >= 2 =>
    /\ args.is_4koma = "True" =>
         /\ result.raised = "none"
         /\ result.calls = {}
         /\ IsPermutation(result.value, Len(panels))
         /\ \A k \in 1..(Len(panels) - 1) :
              CenterY(panels[result.value[k] + 1])
                <= CenterY(panels[result.value[k + 1] + 1])
    /\ args.is_4koma = "False" =>
         /\ "build_division_tree" \in result.calls
         /\ "detect_4koma_layout" \notin result.calls

\* is_4koma=True on a page that detect_4koma_layout does not take for a
\* 4-koma, with an output other than the list order
C26_Witness ==
  /\ Estimated
  /\ Len(panels) >= 2
  /\ args.is_4koma = "True"
  /\ ~ detect_4koma_layout(panels, page_width, page_height)
  /\ result.raised = "none"
  /\ result.value[1] # 0

\* is_4koma=False on a page that detect_4koma_layout takes for a 4-koma
C26_FalseOnKoma ==
  /\ Estimated
  /\ args.is_4koma = "False"
  /\ detect_4koma_layout(panels, page_width, page_height)
  /\ "build_division_tree" \in result.calls

\* C27: the functions only read their input: over any call the caller's
\* panel list keeps its length, its order and the coordinates of every
\* bounding box.
C27_PanelsOnlyRead == [][panels' = panels]_vars

\* three panels given bottom to top and read top to bottom: the output is
\* the reverse of the list order, the list itself is as given
C27_Witness ==
  /\ Estimated
  /\ Len(panels) = 3
  /\ result.raised = "none"
  /\ result.value = <<2, 1, 0>>
  /\ CenterY(panels[3]) < CenterY(panels[2])
  /\ CenterY(panels[2]) < CenterY(panels[1])

\* bbox is (min x1, min y1, max x2, max y2) of the non-empty list boxes
IsUnionOf(bbox, boxes) ==
  /\ \A p \in DOMAIN boxes :
       /\ bbox[1] <= boxes[p][1] /\ bbox[2] <= boxes[p][2]
       /\ bbox[3] >= boxes[p][3] /\ bbox[4] >= boxes[p][4]
  /\ \E p \in DOMAIN boxes : bbox[1] = boxes[p][1]
  /\ \E p \in DOMAIN boxes : bbox[2] = boxes[p][2]
  /\ \E p \in DOMAIN boxes : bbox[3] = boxes[p][3]
  /\ \E p \in DOMAIN boxes : bbox[4] = boxes[p][4]

\* C28: every node of a tree returned by build_division_tree has no
\* children and is_leaf = true, or exactly two children and is_leaf = false;
\* the bbox of every non-leaf node and of every merged leaf is the union of
\* the bboxes of the panels of its group (for a non-leaf node, of the leaves
\* below it, and for the root, of the whole input).
C28_NodeShape ==
  Built /\ result.raised = "none" =>
    /\ \A node \in NodesOf(result.node) :
         /\ \/ node.children = <<>> /\ node.is_leaf
            \/ Len(node.children) = 2 /\ ~ node.is_leaf
         /\ ~ node.is_leaf => IsUnionOf(node.bbox, traverse_tree_rtl(node))
    /\ Len(panels) >= 1 => IsUnionOf(result.node.bbox, panels)

\* two different panels merged into one leaf that is neither of them
C28_Witness ==
  /\ Built
  /\ Len(panels) = 2
  /\ result.raised = "none"
  /\ result.node.is_leaf
  /\ result.node.children = <<>>
  /\ result.node.bbox # panels[1]
  /\ result.node.bbox # panels[2]
  /\ IsUnionOf(result.node.bbox, panels)

\* C29: whenever select_best_gutter returns a gutter for a panel list,
\* divide_panels_by_gutter on the same list and gutter gives two non-empty
\* groups whose sizes are the two counts the gutter was scored with; so the
\* division does not fail and each group is strictly smaller than the list.
C29_GroupsMatchCounts ==
  Divided =>
    LET g == result.value
        axis == IF g.orientation = "horizontal" THEN 2 ELSE 1
        counts == <<CountBelow(panels, axis, g),
                    CountAtOrAbove(panels, axis, g)>>
    IN /\ result.group1 # <<>>
       /\ result.group2 # <<>>
       /\ <<Len(result.group1), Len(result.group2)>>
            = IF g.orientation = "horizontal" THEN counts
              ELSE <<counts[2], counts[1]>>
       /\ Len(result.group1) + Len(result.group2) = Len(panels)
       /\ Len(result.group1) < Len(panels)
       /\ Len(result.group2) < Len(panels)

\* a vertical gutter chosen for three panels: one on the right, two on the
\* left
C29_Witness ==
  /\ Divided
  /\ Len(panels) = 3
  /\ result.value.orientation = "vertical"
  /\ Len(result.group1) = 1
  /\ Len(result.group2) = 2

Timed == pc = "generate_timeline_for_chapter"

\* number of panels on the pages before page k of the chapter
PanelsBefore(k) ==
  SeqSum([j \in 1..(k - 1) |-> Len(args.chapter_entries[j].content)])

\* all panels of the page carry reading_order, or none does
CarriesOrder(page_entry) ==
  \A p \in DOMAIN page_entry.content :
    "reading_order" \in DOMAIN page_entry.content[p].panel

CarriesNoOrder(page_entry) ==
  \A p \in DOMAIN page_entry.content :
    "reading_order" \notin DOMAIN page_entry.content[p].panel

=============================================================================
